---- MODULE Spec2Model ----
(***************************************************************************)
(* Model of the analysis orchestration pipeline (backend/app/orchestrator  *)
(* .py) and of the price estimation engine (backend/agents/pricing.py).    *)
(*                                                                         *)
(* Conventions                                                             *)
(*  - Python None / an absent dict key is Nil == << >>; a present value x  *)
(*    is Some(x) == << x >>.  Fields that the code only ever tests for     *)
(*    truthiness (`d.get(k) or ""`) are plain strings, "" standing for     *)
(*    None, absent and the empty string alike.                             *)
(*  - Russian literals of the source are transliterated to ASCII           *)
(*    ("bityi" for the damage flag, "slabaya" / "umerennaya" / "silnaya"   *)
(*    for the severities, "analiz nevozmozhen" ... for the phrases).       *)
(*  - Prices and the MAE are fixed point in quarters (the float x is the    *)
(*    integer 4*x); scores in [0, 1] are in tenths (x is 10*x).            *)
(***************************************************************************)
EXTENDS Integers, Sequences, FiniteSets, TLC

VARIABLES
    op,             \* the operation being served: "none", "analyze", "recalc", "status"
    pc,             \* position of the request's main thread
    images,         \* number of images in images_bytes
    fut,            \* the four futures: "none", "running", "returned", "raised"
    ret,            \* value a finished task returned, per task
    futExc,         \* str(e) of the exception a task raised, per task
    exc,            \* the exception raised in the main thread: Nil or << str(e), phase >>
    vision,         \* result of fut_vision.result()
    classification, \* result of fut_classification.result()
    request,        \* body of a recalculate-price request
    mapped,         \* car_identity, visual_condition, technical_assumptions, df_for_pricing
    rp,             \* the activation of run_pricing: position, arguments, locals
    calls,          \* remote / training calls issued by run_pricing
    price_est,      \* the dict the caller got from run_pricing (or its substitute)
    generated_description,
    response,       \* what the operation returned
    statusOut       \* result of a bare _decide_status call

vars == << op, pc, images, fut, ret, futExc, exc, vision, classification,
           request, mapped, rp, calls, price_est, generated_description,
           response, statusOut >>

----------------------------------------------------------------------------
(* Bounds of the model *)

\* longest defect list a perception output or a request carries
MaxDefects == 1
\* how many fields of a recalculate-price request deviate from a complete record
MaxTouched == 1

----------------------------------------------------------------------------
(* Values *)

Nil == << >>
Some(x) == << x >>
IsNil(o) == o = << >>
Val(o) == o[1]

Max(a, b) == IF a >= b THEN a ELSE b

\* str.strip() on the strings of the model
Strip(s) ==
    CASE s = " " -> ""
      [] s = " bogus " -> "bogus"
      [] OTHER -> s

\* str.lower() on the strings of the model
Lower(s) ==
    CASE s = "Analiz nevozmozhen" -> "analiz nevozmozhen"
      [] s = "Silnaya" -> "silnaya"
      [] s = "Bityi" -> "bityi"
      [] OTHER -> s

\* Python's round(): round half to even, on a value in quarters
Round(q) ==
    LET f == q \div 4
        r == q % 4
    IN  IF r < 2 THEN f
        ELSE IF r > 2 THEN f + 1
        ELSE IF f % 2 = 0 THEN f ELSE f + 1

----------------------------------------------------------------------------
(* app/schemas.py *)

\* CarIdentity()
DefaultCarIdentity ==
    [ brand |-> "", model |-> "", generation |-> "", year |-> Nil,
      body_type |-> "", color |-> "", steering_wheel_position |-> "",
      engine_capacity |-> Nil, transmission |-> "", drive_type |-> "",
      mileage |-> Nil, damage_flag |-> "" ]

\* VisualCondition()
DefaultVisualCondition == [ overall_score |-> 0, defects |-> << >> ]

\* TechnicalAssumptions()
DefaultTechnicalAssumptions == [ accident_signs |-> FALSE, repaint_probability |-> 0 ]

\* PriceEstimation()
DefaultPriceEstimation ==
    [ min_price |-> Nil, max_price |-> Nil, suggested_price |-> Nil, mae |-> Nil,
      missing_fields |-> << >>, error_message |-> Nil, generated_rows |-> Nil ]

\* SEVERITY_MAP.get(severity_ru, "weak")
SEVERITY_MAP(severity_ru) ==
    CASE severity_ru = "slabaya" -> "weak"
      [] severity_ru = "umerennaya" -> "moderate"
      [] severity_ru = "silnaya" -> "strong"
      [] OTHER -> "weak"

----------------------------------------------------------------------------
(* app/orchestrator.py: pure helpers *)

\* _normalize_defect_type on the defect types of the model: "" is a substring
\* of the first key of DEFECT_TYPE_MAP, "vmyatina" is its second key, and
\* anything else falls through every test to the final "scratch"
_normalize_defect_type(t) ==
    LET t_lower == Lower(Strip(t))
    IN  CASE t_lower = "" -> "scratch"
          [] t_lower = "tsarapina" -> "scratch"
          [] t_lower = "vmyatina" -> "dent"
          [] t_lower = "skol" -> "chip"
          [] OTHER -> "scratch"

\* the DefectItem built from one dict of vision["defects"]
DefectItemOf(d) ==
    [ type |-> _normalize_defect_type(d.type),
      severity |-> SEVERITY_MAP(Lower(Strip(IF d.severity = "" THEN "slabaya" ELSE d.severity))) ]

RECURSIVE MapDefectsFrom(_)
MapDefectsFrom(raw) ==
    IF raw = << >> THEN << >>
    ELSE IF ~Head(raw).isDict THEN MapDefectsFrom(Tail(raw))
    ELSE << DefectItemOf(Head(raw)) >> \o MapDefectsFrom(Tail(raw))

\* _map_defects(vision)
_map_defects(v) == MapDefectsFrom(v.defects)

\* truthiness of an optional string / an optional list
TruthyStr(o) == ~IsNil(o) /\ Val(o) # ""
TruthyList(o) == ~IsNil(o) /\ Val(o) # << >>

\* an argument that is no dict (None, a list, a string): .get on it raises
NotADict == [ notADict |-> TRUE ]
IsDict(x) == "notADict" \notin DOMAIN x

\* the four ConfidenceWarning values; reason abbreviates the Russian text
LowClassificationConfidence ==
    [ field |-> "model", confidence |-> "low", reason |-> "low_classification_confidence" ]
BrandOrModelUnknown ==
    [ field |-> "model", confidence |-> "low", reason |-> "brand_or_model_unknown" ]
LimitedVisibility ==
    [ field |-> "visual_condition", confidence |-> "medium", reason |-> "limited_visibility" ]
NotEnoughData ==
    [ field |-> "price_estimation", confidence |-> "low", reason |-> "not_enough_data" ]

\* _confidence_warnings as an if / elif chain: only the first warning whose
\* condition holds is emitted
_confidence_warnings_first_match(c, v, pe) ==
    IF ~IsDict(c) THEN << >>
    ELSE IF IsDict(c.classification_confidence)
            /\ (c.classification_confidence.category = "low"
                \/ c.classification_confidence.subcategory = "low")
         THEN << LowClassificationConfidence >>
    ELSE IF c.brand = "" \/ c.model = "" THEN << BrandOrModelUnknown >>
    ELSE IF ~IsDict(v) THEN << >>
    ELSE IF Len(v.inspection_reliability_score) = 1 /\ Val(v.inspection_reliability_score) < 6
         THEN << LimitedVisibility >>
    ELSE IF ~IsDict(pe) THEN << >>
    ELSE IF IsNil(pe.suggested_price)
            /\ (TruthyList(pe.missing_fields) \/ TruthyStr(pe._error) \/ TruthyStr(pe._reason))
         THEN << NotEnoughData >>
    ELSE << >>

\* _confidence_warnings(classification, vision, price_est).  The four tests
\* run in order inside one try block: .get on an argument that is no dict
\* raises, the handler of lines 101-102 swallows the exception, and the
\* warnings appended so far are returned.  Scores are in tenths.
_confidence_warnings(c, v, pe) ==
    IF ~IsDict(c) THEN << >>
    ELSE
    LET conf == c.classification_confidence
        w1 == IF IsDict(conf) /\ (conf.category = "low" \/ conf.subcategory = "low")
              THEN << LowClassificationConfidence >>
              ELSE << >>
        w2 == IF c.brand = "" \/ c.model = ""
              THEN << BrandOrModelUnknown >>
              ELSE << >>
    IN  IF ~IsDict(v) THEN w1 \o w2
        ELSE
        LET insp == v.inspection_reliability_score
            w3 == IF Len(insp) = 1 /\ Val(insp) < 6
                  THEN << LimitedVisibility >>
                  ELSE << >>
        IN  IF ~IsDict(pe) THEN w1 \o w2 \o w3
            ELSE
            LET w4 == IF IsNil(pe.suggested_price)
                         /\ (TruthyList(pe.missing_fields) \/ TruthyStr(pe._error)
                                \/ TruthyStr(pe._reason))
                      THEN << NotEnoughData >>
                      ELSE << >>
            IN  w1 \o w2 \o w3 \o w4

\* the three rejection phrases of _decide_status
RejectionPhrases ==
    { "analiz nevozmozhen", "ne soderzhit avtomobil", "ne sootvetstvuet zadache" }

\* `phrase in raw_desc`: raw_text_description is a sequence of sentences
Contains(text, phrase) == \E i \in 1..Len(text) : Lower(text[i]) = phrase

\* _decide_status with the order of its first two groups of tests exchanged
_decide_status_rule3_first(v, c) ==
    IF c.brand = "" /\ c.model = "" THEN "needs_user_input"
    ELSE IF v._error # "" \/ v._parse_error # "" THEN "error"
    ELSE IF c._error # "" \/ c._parse_error # "" THEN "error"
    ELSE IF \E p \in RejectionPhrases : Contains(v.raw_text_description, p)
         THEN "needs_user_input"
    ELSE IF c.status = "failed" /\ c.failure_reason # "" THEN "needs_user_input"
    ELSE "ok"

\* _decide_status without the test of the classification's error markers
_decide_status_vision_markers_only(v, c) ==
    IF v._error # "" \/ v._parse_error # "" THEN "error"
    ELSE IF \E p \in RejectionPhrases : Contains(v.raw_text_description, p)
         THEN "needs_user_input"
    ELSE IF c.status = "failed" /\ c.failure_reason # "" THEN "needs_user_input"
    ELSE IF c.brand = "" /\ c.model = "" THEN "needs_user_input"
    ELSE "ok"

\* _decide_status(vision, classification)
_decide_status(v, c) ==
    IF v._error # "" \/ v._parse_error # "" THEN "error"
    ELSE IF c._error # "" \/ c._parse_error # "" THEN "error"
    ELSE IF Contains(v.raw_text_description, "analiz nevozmozhen")
            \/ Contains(v.raw_text_description, "ne soderzhit avtomobil")
            \/ Contains(v.raw_text_description, "ne sootvetstvuet zadache")
         THEN "needs_user_input"
    ELSE IF c.status = "failed" /\ c.failure_reason # "" THEN "needs_user_input"
    ELSE IF c.brand = "" /\ c.model = "" THEN "needs_user_input"
    ELSE "ok"

\* safe_str(value)
safe_str(value) == Strip(value)

\* car_identity of analyze_images
CarIdentityOf(v, c) ==
    [ brand |-> safe_str(c.brand),
      model |-> safe_str(c.model),
      generation |-> "",
      year |-> Nil,
      body_type |-> safe_str(c.body_type),
      color |-> safe_str(c.color),
      steering_wheel_position |-> safe_str(c.steering_wheel_position),
      engine_capacity |-> Nil,
      transmission |-> safe_str(c.transmission),
      drive_type |-> "",
      mileage |-> Nil,
      damage_flag |-> safe_str(IF v.damage_flag = "" THEN "ne opredeleno" ELSE v.damage_flag) ]

\* visual_condition of analyze_images
VisualConditionOf(v) ==
    [ overall_score |-> IF IsNil(v.visual_condition_score) THEN 0 ELSE Val(v.visual_condition_score),
      defects |-> _map_defects(v) ]

\* technical_assumptions of analyze_images
TechnicalAssumptionsOf(v) ==
    [ accident_signs |->
          Lower(safe_str(IF v.damage_flag = "" THEN "ne opredeleno" ELSE v.damage_flag)) = "bityi",
      repaint_probability |-> 0 ]

\* df_for_pricing of analyze_images
DfForPricingOf(ci, vc) ==
    [ brand |-> ci.brand, model |-> ci.model, body_type |-> ci.body_type,
      color |-> ci.color, steering_wheel_position |-> ci.steering_wheel_position,
      year |-> ci.year, engine_capacity |-> ci.engine_capacity,
      transmission |-> ci.transmission, drive_type |-> ci.drive_type,
      mileage |-> ci.mileage, damage_flag |-> ci.damage_flag,
      visual_condition_score |-> vc.overall_score,
      defects_cnt |-> Len(vc.defects) ]

----------------------------------------------------------------------------
(* agents/pricing.py: pure helpers *)

\* REQUIRED_FOR_PRICING, in its order
REQUIRED_FOR_PRICING ==
    << "brand", "model", "body_type", "color", "steering_wheel_position",
       "year", "engine_capacity", "transmission", "drive_type", "mileage",
       "damage_flag" >>

\* the required fields that hold a number
NumericFields == { "year", "engine_capacity", "mileage" }

\* a value int() and float() reject with ValueError (such as the string "abc");
\* Nil has length 0, a number Some(n) length 1, and this value length 2
NotANumber == << 0, 0 >>
Parses(o) == Len(o) = 1

\* the test _check_missing applies to one field of the row
FieldMissing(row, f) ==
    CASE f = "steering_wheel_position" -> Strip(row[f]) \notin { "left", "right" }
      [] f \in NumericFields -> IsNil(row[f]) \/ ~Parses(row[f])
      [] OTHER -> Strip(row[f]) = ""

RECURSIVE MissingFrom(_, _)
MissingFrom(row, fields) ==
    IF fields = << >> THEN << >>
    ELSE (IF FieldMissing(row, Head(fields)) THEN << Head(fields) >> ELSE << >>)
         \o MissingFrom(row, Tail(fields))

\* _check_missing(row)
_check_missing(row) == MissingFrom(row, REQUIRED_FOR_PRICING)

\* _severity_ru(sev) of run_pricing
_severity_ru(sev) ==
    LET s == Lower(Strip(sev))
    IN  CASE s \in { "slabaya", "weak" } -> "slabaya"
          [] s \in { "umerennaya", "moderate" } -> "umerennaya"
          [] s \in { "silnaya", "strong" } -> "silnaya"
          [] OTHER -> ""

RECURSIVE CountSeverity(_, _)
\* sum(1 for d in defects if _severity_ru(d.get("severity") or "") == sev)
CountSeverity(defects, sev) ==
    IF defects = << >> THEN 0
    ELSE (IF _severity_ru(Head(defects).severity) = sev THEN 1 ELSE 0)
         + CountSeverity(Tail(defects), sev)

\* d.get raises AttributeError on an entry of defects that is no dict
HasNonDict(defects) == \E i \in 1..Len(defects) : ~defects[i].isDict

\* an argument int(...) or float(...) of the row construction rejects
HasUnparsable(a) == \E f \in NumericFields : ~IsNil(a[f]) /\ ~Parses(a[f])

\* the row run_pricing builds from its arguments
RowOf(a) ==
    LET weak == CountSeverity(a.defects, "slabaya")
        moderate == CountSeverity(a.defects, "umerennaya")
        strong == CountSeverity(a.defects, "silnaya")
    IN  [ brand |-> Strip(a.brand),
          model |-> Strip(a.model),
          body_type |-> Strip(a.body_type),
          color |-> Strip(a.color),
          steering_wheel_position |-> Strip(a.steering_wheel_position),
          year |-> a.year,
          engine_capacity |-> a.engine_capacity,
          transmission |-> Strip(a.transmission),
          drive_type |-> Strip(a.drive_type),
          mileage |-> a.mileage,
          damage_flag |-> Strip(a.damage_flag),
          visual_condition_score |-> a.visual_condition_score,
          inspection_reliability_score |-> a.inspection_reliability_score,
          defects_cnt |-> weak + moderate + strong,
          defects_severity_weak_cnt |-> weak,
          defects_severity_moderate_cnt |-> moderate,
          defects_severity_strong_cnt |-> strong ]

\* a dict with no key set: d.get(k) is None for every k
EmptyEstimate ==
    [ min_price |-> Nil, max_price |-> Nil, suggested_price |-> Nil, mae |-> Nil,
      missing_fields |-> Nil, _error |-> Nil, _reason |-> Nil, generated_rows |-> Nil ]

\* the dict returned when the completeness check fails
MissingResult(missing) == [ EmptyEstimate EXCEPT !.missing_fields = Some(missing) ]

\* the dict returned with "_reason"
ReasonResult(reason) ==
    [ EmptyEstimate EXCEPT !.missing_fields = Some(<< >>), !._reason = Some(reason) ]

\* the dict returned with "_error"
ErrorResult(msg) ==
    [ EmptyEstimate EXCEPT !.missing_fields = Some(<< >>), !._error = Some(msg) ]

\* the dict returned when predict gave no value
NoPredictionResult == [ EmptyEstimate EXCEPT !.missing_fields = Some(<< >>) ]

\* the dict of a successful estimate; predicted and mae in quarters
SuccessResult(predicted, mae, nrows) ==
    LET suggested_price == Round(predicted)
        min_price == Max(0, Round(4 * suggested_price - mae))
        max_price == Round(4 * suggested_price + mae)
    IN  [ EmptyEstimate EXCEPT
            !.min_price = Some(min_price),
            !.max_price = Some(max_price),
            !.suggested_price = Some(suggested_price),
            !.mae = Some(Round(mae)),
            !.missing_fields = Some(<< >>),
            !.generated_rows = Some(nrows) ]

----------------------------------------------------------------------------
(* Inputs: what the perception, classification and description agents, the *)
(* remote text service and the HTTP client can hand to the code            *)

\* entries of a perception defect list; the first is not a dict
RawDefects ==
    { [ isDict |-> FALSE, severity |-> "", type |-> "" ],
      [ isDict |-> TRUE, severity |-> "slabaya", type |-> "vmyatina" ],
      [ isDict |-> TRUE, severity |-> "strong", type |-> "" ],
      [ isDict |-> TRUE, severity |-> "", type |-> "pyatno" ] }

ListsOver(S) == UNION { [ 1..n -> S ] : n \in 0..MaxDefects }

\* a perception output that is only a soft error marker
SoftErrorVision(key) ==
    [ _error |-> IF key = "_error" THEN "timeout" ELSE "",
      _parse_error |-> IF key = "_parse_error" THEN "bad json" ELSE "",
      raw_text_description |-> << >>, damage_flag |-> "",
      visual_condition_score |-> Nil, inspection_reliability_score |-> Nil,
      defects |-> << >> ]

VisionOutputs ==
    { SoftErrorVision(k) : k \in { "_error", "_parse_error" } }
    \cup
    { [ _error |-> "", _parse_error |-> "",
        raw_text_description |-> t, damage_flag |-> dmg,
        visual_condition_score |-> Some(8), inspection_reliability_score |-> insp,
        defects |-> ds ] :
        t \in { << "seryi sedan" >>, << "Analiz nevozmozhen" >> },
        dmg \in { "", "Bityi" },
        insp \in { Nil, Some(5), Some(9) },
        ds \in ListsOver(RawDefects) }

\* a classification output that is only a soft error marker
SoftErrorClassification(key) ==
    [ _error |-> IF key = "_error" THEN "timeout" ELSE "",
      _parse_error |-> IF key = "_parse_error" THEN "bad json" ELSE "",
      status |-> "", failure_reason |-> "", brand |-> "", model |-> "",
      body_type |-> "", color |-> "", steering_wheel_position |-> "",
      transmission |-> "",
      classification_confidence |-> [ category |-> "", subcategory |-> "" ] ]

ClassificationOutputs ==
    { SoftErrorClassification(k) : k \in { "_error", "_parse_error" } }
    \cup
    { [ _error |-> "", _parse_error |-> "",
        status |-> st[1], failure_reason |-> st[2], brand |-> b, model |-> m,
        body_type |-> "sedan", color |-> " bogus ", steering_wheel_position |-> "left",
        transmission |-> "automatic",
        classification_confidence |-> [ category |-> cat, subcategory |-> "high" ] ] :
        st \in { << "ok", "" >>, << "failed", "blurry" >> },
        b \in { "", "Toyota" }, m \in { "", "Camry" },
        cat \in { "low", "high" } }

\* str(e) of an exception the remote text service or the model fit raises
ExcMessages == { "", "boom" }

\* str(e) of the RuntimeError of executor.submit
SchedulingFault == "cannot start new thread"

\* the texts run_description returns
Descriptions == { "Prodaetsya avtomobil" }

\* placeholders of the right shape for results not yet available
NoVision == SoftErrorVision("")
NoClassification == SoftErrorClassification("")

\* the DefectItems a recalculate-price request carries
DefectItems ==
    { [ type |-> "dent", severity |-> "weak" ],
      [ type |-> "scratch", severity |-> "strong" ] }

\* a complete car_identity
CompleteIdentity ==
    [ brand |-> "Toyota", model |-> "Camry", generation |-> "", year |-> Some(2015),
      body_type |-> "sedan", color |-> "grey", steering_wheel_position |-> "left",
      engine_capacity |-> Some(2), transmission |-> "automatic", drive_type |-> "fwd",
      mileage |-> Some(90000), damage_flag |-> "ne bityi" ]

RequiredSet == { REQUIRED_FOR_PRICING[i] : i \in 1..Len(REQUIRED_FOR_PRICING) }

\* CompleteIdentity with the fields of `touched` overwritten: the numeric ones
\* by None, the others by the string `fill`
Touch(touched, fill) ==
    [ f \in DOMAIN CompleteIdentity |->
        IF f \notin touched THEN CompleteIdentity[f]
        ELSE IF f \in NumericFields THEN Nil ELSE fill ]

\* the bodies of a recalculate-price request
Requests ==
    { [ car_identity |-> Touch(touched, fill),
        visual_condition |-> [ overall_score |-> 8, defects |-> ds ],
        technical_assumptions |-> [ accident_signs |-> acc, repaint_probability |-> 0 ] ] :
        touched \in { t \in SUBSET RequiredSet : Cardinality(t) <= MaxTouched },
        fill \in { "", " ", " bogus " },
        ds \in ListsOver(DefectItems),
        acc \in BOOLEAN }

NoRequest ==
    [ car_identity |-> DefaultCarIdentity, visual_condition |-> DefaultVisualCondition,
      technical_assumptions |-> DefaultTechnicalAssumptions ]

----------------------------------------------------------------------------
(* State *)

Tasks == { "vision", "classification", "pricing", "description" }
Phase1 == { "vision", "classification" }
Phase2 == { "pricing", "description" }

\* the arguments of a run_pricing call made with nothing
NoArgs ==
    [ brand |-> "", model |-> "", body_type |-> "", color |-> "",
      steering_wheel_position |-> "", year |-> Nil, engine_capacity |-> Nil,
      transmission |-> "", drive_type |-> "", mileage |-> Nil, damage_flag |-> "",
      visual_condition_score |-> 0, inspection_reliability_score |-> 0,
      defects |-> << >> ]

\* no activation of run_pricing
IdleRp ==
    [ pc |-> "idle", args |-> NoArgs, row |-> RowOf(NoArgs), attempt |-> 0,
      rows |-> 0, last_error |-> "", absent |-> { }, fill |-> << >> ]

NoMapped ==
    [ car_identity |-> DefaultCarIdentity, visual_condition |-> DefaultVisualCondition,
      technical_assumptions |-> DefaultTechnicalAssumptions,
      df_for_pricing |-> DfForPricingOf(DefaultCarIdentity, DefaultVisualCondition) ]

\* nothing called yet; `responses` logs how each generation request ended:
\* "empty", "few" (1-9 rows), "enough", "unparseable" or "raised"
NoCalls ==
    [ client |-> 0, generate |-> 0, fit |-> 0, temperatures |-> << >>, responses |-> << >> ]

NoResponse == [ kind |-> "none" ]

Init ==
    /\ op = "none"
    /\ pc = "idle"
    /\ images = 0
    /\ fut = [ t \in Tasks |-> "none" ]
    /\ ret = [ vision |-> NoVision, classification |-> NoClassification,
               pricing |-> EmptyEstimate, description |-> "" ]
    /\ futExc = [ t \in Tasks |-> "" ]
    /\ exc = Nil
    /\ vision = NoVision
    /\ classification = NoClassification
    /\ request = NoRequest
    /\ mapped = NoMapped
    /\ rp = IdleRp
    /\ calls = NoCalls
    /\ price_est = EmptyEstimate
    /\ generated_description = ""
    /\ response = NoResponse
    /\ statusOut = ""

----------------------------------------------------------------------------
(* analyze_images: the main thread *)

\* AnalysisResponse(status=..., confidence_warnings=[one warning])
EarlyResponse(status, field) ==
    [ kind |-> "AnalysisResponse",
      car_identity |-> DefaultCarIdentity,
      visual_condition |-> DefaultVisualCondition,
      technical_assumptions |-> DefaultTechnicalAssumptions,
      price_estimation |-> DefaultPriceEstimation,
      generated_description |-> "",
      confidence_warnings |-> << [ field |-> field, confidence |-> "low", reason |-> field ] >>,
      status |-> status,
      vision_result |-> NoVision ]

\* the call, the empty-list return and the base64 encoding (lines 125-137)
Analyze_Call ==
    /\ op = "none"
    /\ \E n \in { 0, 1 } :
        /\ images' = n
        /\ IF n = 0
           THEN /\ response' = EarlyResponse("needs_user_input", "images")
                /\ pc' = "done"
           ELSE /\ pc' = "a_submit_vision"
                /\ UNCHANGED response
    /\ op' = "analyze"
    /\ UNCHANGED << fut, ret, futExc, exc, vision, classification, request, mapped,
                    rp, calls, price_est, generated_description, statusOut >>

\* the exception with message msg raised in the main thread by a statement
\* of the `with` block of the given phase
Raised(msg, phase) == << msg, phase >>
Message(e) == e[1]
PhaseOf(e) == e[2]

\* executor.submit(fn): the task starts, or submit itself raises
Submit(t, next, exit, phase) ==
    /\ \/ /\ fut' = [ fut EXCEPT ![t] = "running" ]
          /\ pc' = next
          /\ UNCHANGED exc
       \/ /\ exc' = Raised(SchedulingFault, phase)
          /\ pc' = exit
          /\ UNCHANGED fut

\* fut_vision = executor.submit(run_vision, images_b64)
Phase1_SubmitVision ==
    /\ pc = "a_submit_vision"
    /\ Submit("vision", "a_submit_classification", "a_exit1", 1)
    /\ UNCHANGED << op, images, ret, futExc, vision, classification, request, mapped,
                    rp, calls, price_est, generated_description, response, statusOut >>

\* the submission of a mutant that fans all tasks out at once: after the
\* second submit it goes on to the mapping and the phase-2 submits without
\* reading the phase-1 results
Phase1_SubmitClassification_flat_fanout ==
    /\ pc = "a_submit_classification"
    /\ Submit("classification", "a_map", "a_exit1", 1)
    /\ UNCHANGED << op, images, ret, futExc, vision, classification, request, mapped,
                    rp, calls, price_est, generated_description, response, statusOut >>

\* fut_classification = executor.submit(run_classification, images_b64)
Phase1_SubmitClassification ==
    /\ pc = "a_submit_classification"
    /\ Submit("classification", "a_result_vision", "a_exit1", 1)
    /\ UNCHANGED << op, images, ret, futExc, vision, classification, request, mapped,
                    rp, calls, price_est, generated_description, response, statusOut >>

\* vision = fut_vision.result(): blocks until the task ended, re-raises its exception
Phase1_ResultVision ==
    /\ pc = "a_result_vision"
    /\ fut["vision"] \in { "returned", "raised" }
    /\ IF fut["vision"] = "returned"
       THEN /\ vision' = ret.vision
            /\ pc' = "a_result_classification"
            /\ UNCHANGED exc
       ELSE /\ exc' = Raised(futExc["vision"], 1)
            /\ pc' = "a_exit1"
            /\ UNCHANGED vision
    /\ UNCHANGED << op, images, fut, ret, futExc, classification, request, mapped,
                    rp, calls, price_est, generated_description, response, statusOut >>

\* classification = fut_classification.result()
Phase1_ResultClassification ==
    /\ pc = "a_result_classification"
    /\ fut["classification"] \in { "returned", "raised" }
    /\ IF fut["classification"] = "returned"
       THEN /\ classification' = ret.classification
            /\ UNCHANGED exc
       ELSE /\ exc' = Raised(futExc["classification"], 1)
            /\ UNCHANGED classification
    /\ pc' = "a_exit1"
    /\ UNCHANGED << op, images, fut, ret, futExc, vision, request, mapped,
                    rp, calls, price_est, generated_description, response, statusOut >>

\* leaving the first `with` block as the mutant does: its exception handler
\* falls through to the mapping instead of returning
Phase1_Exit_falls_through ==
    /\ pc = "a_exit1"
    /\ \A t \in Phase1 : fut[t] # "running"
    /\ pc' = "a_map"
    /\ UNCHANGED << op, images, fut, ret, futExc, exc, vision, classification, request,
                    mapped, rp, calls, price_est, generated_description, response,
                    statusOut >>

\* leaving the first `with` block: shutdown(wait=True) joins the submitted
\* tasks, then the exception, if any, reaches the handler of lines 146-150
\* (exc stays bound to what the handler caught)
Phase1_Exit ==
    /\ pc = "a_exit1"
    /\ \A t \in Phase1 : fut[t] # "running"
    /\ IF IsNil(exc)
       THEN /\ pc' = "a_map"
            /\ UNCHANGED response
       ELSE /\ response' = EarlyResponse("error", "agents")
            /\ pc' = "done"
    /\ UNCHANGED << op, images, fut, ret, futExc, exc, vision, classification, request,
                    mapped, rp, calls, price_est, generated_description, statusOut >>

\* lines 152-202: car_identity, visual_condition, technical_assumptions, df_for_pricing
Map ==
    /\ pc = "a_map"
    /\ LET ci == CarIdentityOf(vision, classification)
           vc == VisualConditionOf(vision)
       IN  mapped' = [ car_identity |-> ci, visual_condition |-> vc,
                       technical_assumptions |-> TechnicalAssumptionsOf(vision),
                       df_for_pricing |-> DfForPricingOf(ci, vc) ]
    /\ pc' = "a_submit_pricing"
    /\ UNCHANGED << op, images, fut, ret, futExc, exc, vision, classification, request,
                    rp, calls, price_est, generated_description, response, statusOut >>

\* the keyword arguments of the closure _run_pricing (lines 205-221)
AnalyzePricingArgs ==
    LET ci == mapped.car_identity
        insp == vision.inspection_reliability_score
    IN  [ brand |-> ci.brand, model |-> ci.model, body_type |-> ci.body_type,
          color |-> ci.color, steering_wheel_position |-> ci.steering_wheel_position,
          year |-> ci.year, engine_capacity |-> ci.engine_capacity,
          transmission |-> ci.transmission, drive_type |-> ci.drive_type,
          mileage |-> ci.mileage, damage_flag |-> ci.damage_flag,
          visual_condition_score |-> mapped.visual_condition.overall_score,
          inspection_reliability_score |->
              IF IsNil(insp) \/ Val(insp) = 0 THEN 5 ELSE Val(insp),
          defects |-> vision.defects ]

\* fut_price = executor.submit(_run_pricing)
Phase2_SubmitPricing ==
    /\ pc = "a_submit_pricing"
    /\ Submit("pricing", "a_submit_description", "a_exit2", 2)
    /\ rp' = IF fut'["pricing"] = "running"
             THEN [ IdleRp EXCEPT !.pc = "entry", !.args = AnalyzePricingArgs ]
             ELSE rp
    /\ UNCHANGED << op, images, ret, futExc, vision, classification, request, mapped,
                    calls, price_est, generated_description, response, statusOut >>

\* fut_desc = executor.submit(run_description, images_b64, classification, vision, df_for_pricing)
Phase2_SubmitDescription ==
    /\ pc = "a_submit_description"
    /\ Submit("description", "a_result_pricing", "a_exit2", 2)
    /\ UNCHANGED << op, images, ret, futExc, vision, classification, request, mapped,
                    rp, calls, price_est, generated_description, response, statusOut >>

\* price_est = fut_price.result()
Phase2_ResultPricing ==
    /\ pc = "a_result_pricing"
    /\ fut["pricing"] \in { "returned", "raised" }
    /\ IF fut["pricing"] = "returned"
       THEN /\ price_est' = ret.pricing
            /\ pc' = "a_result_description"
            /\ UNCHANGED exc
       ELSE /\ exc' = Raised(futExc["pricing"], 2)
            /\ pc' = "a_exit2"
            /\ UNCHANGED price_est
    /\ UNCHANGED << op, images, fut, ret, futExc, vision, classification, request,
                    mapped, rp, calls, generated_description, response, statusOut >>

\* generated_description = fut_desc.result()
Phase2_ResultDescription ==
    /\ pc = "a_result_description"
    /\ fut["description"] \in { "returned", "raised" }
    /\ IF fut["description"] = "returned"
       THEN /\ generated_description' = ret.description
            /\ UNCHANGED exc
       ELSE /\ exc' = Raised(futExc["description"], 2)
            /\ UNCHANGED generated_description
    /\ pc' = "a_exit2"
    /\ UNCHANGED << op, images, fut, ret, futExc, vision, classification, request,
                    mapped, rp, calls, price_est, response, statusOut >>

\* {"_error": str(e)} of line 233
JoinErrorDict(msg) == [ EmptyEstimate EXCEPT !._error = Some(msg) ]

\* leaving the second `with` block as an executor shut down with wait=False
\* would: the handler runs while a submitted task may still be running
Phase2_Exit_no_wait ==
    /\ pc = "a_exit2"
    /\ IF IsNil(exc)
       THEN UNCHANGED << price_est, generated_description >>
       ELSE /\ price_est' = JoinErrorDict(Message(exc))
            /\ generated_description' = ""
    /\ pc' = "a_assemble"
    /\ UNCHANGED << op, images, fut, ret, futExc, exc, vision, classification, request,
                    mapped, rp, calls, response, statusOut >>

\* leaving the second `with` block: shutdown(wait=True) joins the submitted
\* tasks, then the exception, if any, reaches the handler of lines 229-234
Phase2_Exit ==
    /\ pc = "a_exit2"
    /\ \A t \in Phase2 : fut[t] # "running"
    /\ IF IsNil(exc)
       THEN UNCHANGED << price_est, generated_description >>
       ELSE /\ price_est' = JoinErrorDict(Message(exc))
            /\ generated_description' = ""
    /\ pc' = "a_assemble"
    /\ UNCHANGED << op, images, fut, ret, futExc, exc, vision, classification, request,
                    mapped, rp, calls, response, statusOut >>

\* price_est.get("_error") or price_est.get("_reason")
ErrMsgOf(pe) == IF TruthyStr(pe._error) THEN pe._error ELSE pe._reason

\* the PriceEstimation of lines 236-261
AnalyzePriceEstimation(pe) ==
    [ min_price |-> pe.min_price,
      max_price |-> pe.max_price,
      suggested_price |-> pe.suggested_price,
      mae |-> pe.mae,
      missing_fields |-> IF IsNil(pe.missing_fields) THEN << >> ELSE Val(pe.missing_fields),
      error_message |-> IF TruthyStr(ErrMsgOf(pe)) THEN ErrMsgOf(pe) ELSE Nil,
      generated_rows |-> pe.generated_rows ]

\* the response a mutant assembles: a failed phase 2 turns the request into an error
AnalysisResponse_escalating(v, c, m, pe, description) ==
    IF TruthyStr(ErrMsgOf(pe)) \/ (IsNil(pe.suggested_price) /\ IsNil(pe.missing_fields))
    THEN EarlyResponse("error", "agents")
    ELSE [ kind |-> "AnalysisResponse",
           car_identity |-> m.car_identity,
           visual_condition |-> m.visual_condition,
           technical_assumptions |-> m.technical_assumptions,
           price_estimation |-> AnalyzePriceEstimation(pe),
           generated_description |-> description,
           confidence_warnings |-> _confidence_warnings(c, v, pe),
           status |-> _decide_status(v, c),
           vision_result |-> v ]

\* the AnalysisResponse of lines 263-276
AnalysisResponseOf(v, c, m, pe, description) ==
    [ kind |-> "AnalysisResponse",
      car_identity |-> m.car_identity,
      visual_condition |-> m.visual_condition,
      technical_assumptions |-> m.technical_assumptions,
      price_estimation |-> AnalyzePriceEstimation(pe),
      generated_description |-> description,
      confidence_warnings |-> _confidence_warnings(c, v, pe),
      status |-> _decide_status(v, c),
      vision_result |-> v ]

\* lines 236-276
Assemble ==
    /\ pc = "a_assemble"
    /\ response' = AnalysisResponseOf(vision, classification, mapped, price_est,
                                      generated_description)
    /\ pc' = "done"
    /\ UNCHANGED << op, images, fut, ret, futExc, exc, vision, classification, request,
                    mapped, rp, calls, price_est, generated_description, statusOut >>

----------------------------------------------------------------------------
(* The agents run by the worker threads.  run_vision, run_classification   *)
(* and run_description are the perception, classification and description  *)
(* capabilities: each is a single attempt that returns its output, a       *)
(* failure being a soft error marker (_error, _parse_error) in the         *)
(* returned value.                                                         *)

run_vision ==
    /\ fut["vision"] = "running"
    /\ \E out \in VisionOutputs :
        /\ ret' = [ ret EXCEPT !.vision = out ]
        /\ fut' = [ fut EXCEPT !["vision"] = "returned" ]
    /\ UNCHANGED << op, pc, images, futExc, exc, vision, classification, request, mapped,
                    rp, calls, price_est, generated_description, response, statusOut >>

run_classification ==
    /\ fut["classification"] = "running"
    /\ \E out \in ClassificationOutputs :
        /\ ret' = [ ret EXCEPT !.classification = out ]
        /\ fut' = [ fut EXCEPT !["classification"] = "returned" ]
    /\ UNCHANGED << op, pc, images, futExc, exc, vision, classification, request, mapped,
                    rp, calls, price_est, generated_description, response, statusOut >>

run_description ==
    /\ fut["description"] = "running"
    /\ \E out \in Descriptions :
        /\ ret' = [ ret EXCEPT !.description = out ]
        /\ fut' = [ fut EXCEPT !["description"] = "returned" ]
    /\ UNCHANGED << op, pc, images, futExc, exc, vision, classification, request, mapped,
                    rp, calls, price_est, generated_description, response, statusOut >>

----------------------------------------------------------------------------
(* run_pricing, run by the pricing worker of analyze_images or called by   *)
(* recalculate_price                                                       *)

\* range(2): the attempts of the generation loop
MaxAttempts == 2
\* the fewest rows the loop accepts
MinRows == 10

\* the numbers of rows a response of the text service parses to
RowCounts == { 0, 5, 10 }

\* what cb.predict returns for the car and the held-out MAE, in quarters
Predictions == { -6, 2, 5, 404, 406 }
MAEs == { 0, 2, 3, 8, 41 }

\* run_pricing returns `result` to its caller
RpReturn(result) ==
    /\ rp' = IdleRp
    /\ IF op = "analyze"
       THEN /\ fut' = [ fut EXCEPT !["pricing"] = "returned" ]
            /\ ret' = [ ret EXCEPT !.pricing = result ]
            /\ UNCHANGED << pc, price_est, futExc, response >>
       ELSE /\ price_est' = result
            /\ pc' = "r_build"
            /\ UNCHANGED << fut, ret, futExc, response >>

\* an exception leaves run_pricing
RpRaise(msg) ==
    /\ rp' = IdleRp
    /\ IF op = "analyze"
       THEN /\ fut' = [ fut EXCEPT !["pricing"] = "raised" ]
            /\ futExc' = [ futExc EXCEPT !["pricing"] = msg ]
            /\ UNCHANGED << pc, price_est, ret, response >>
       ELSE /\ response' = [ kind |-> "raised", message |-> msg ]
            /\ pc' = "done"
            /\ UNCHANGED << fut, ret, futExc, price_est >>

\* the entry of a mutant that creates the client before the completeness check
Rp_Entry_client_first ==
    /\ rp.pc = "entry"
    /\ calls' = [ calls EXCEPT !.client = @ + 1 ]
    /\ IF HasNonDict(rp.args.defects)
       THEN RpRaise("'str' object has no attribute 'get'")
       ELSE IF HasUnparsable(rp.args)
       THEN RpRaise("invalid literal for int()")
       ELSE LET row == RowOf(rp.args)
                missing == _check_missing(row)
            IN  IF missing # << >>
                THEN RpReturn(MissingResult(missing))
                ELSE /\ rp' = [ rp EXCEPT !.pc = "generate", !.row = row,
                                          !.last_error = "empty data" ]
                     /\ UNCHANGED << pc, price_est, fut, ret, futExc, response >>
    /\ UNCHANGED << op, images, exc, vision, classification, request, mapped,
                    generated_description, statusOut >>

\* lines 146-185: the severity counts, the row, the completeness check
Rp_Entry ==
    /\ rp.pc = "entry"
    /\ IF HasNonDict(rp.args.defects)
       THEN RpRaise("'str' object has no attribute 'get'")
       ELSE IF HasUnparsable(rp.args)
       THEN RpRaise("invalid literal for int()")
       ELSE LET row == RowOf(rp.args)
                missing == _check_missing(row)
            IN  IF missing # << >>
                THEN RpReturn(MissingResult(missing))
                ELSE /\ rp' = [ rp EXCEPT !.pc = "client", !.row = row ]
                     /\ UNCHANGED << pc, price_est, fut, ret, futExc, response >>
    /\ UNCHANGED << op, images, exc, vision, classification, request, mapped, calls,
                    generated_description, statusOut >>

\* lines 186-193: get_client() raises ValueError when OPENAI_API_KEY is not set
Rp_GetClient ==
    /\ rp.pc = "client"
    /\ \E keySet \in BOOLEAN :
        IF keySet
        THEN /\ calls' = [ calls EXCEPT !.client = @ + 1 ]
             /\ rp' = [ rp EXCEPT !.pc = "generate", !.attempt = 0, !.rows = 0,
                                  !.last_error = "empty data" ]
             /\ UNCHANGED << pc, price_est, fut, ret, futExc, response >>
        ELSE /\ RpRaise("OPENAI_API_KEY is not set")
             /\ UNCHANGED calls
    /\ UNCHANGED << op, images, exc, vision, classification, request, mapped,
                    generated_description, statusOut >>

\* the loop of a mutant that allows itself a third attempt
AfterAttempt_third_try(rows, last_error) ==
    IF rp.attempt + 1 < MaxAttempts + 1
    THEN /\ rp' = [ rp EXCEPT !.attempt = @ + 1, !.rows = rows, !.last_error = last_error ]
         /\ UNCHANGED << pc, price_est, fut, ret, futExc, response >>
    ELSE RpReturn(ReasonResult(last_error))

\* the end of one pass of the loop that did not `break`: the next attempt, or
\* after the last attempt the statement after the loop (lines 241-242)
AfterAttempt(rows, last_error) ==
    IF rp.attempt + 1 < MaxAttempts
    THEN /\ rp' = [ rp EXCEPT !.attempt = @ + 1, !.rows = rows, !.last_error = last_error ]
         /\ UNCHANGED << pc, price_est, fut, ret, futExc, response >>
    ELSE RpReturn(ReasonResult(last_error))

\* one pass of the generation loop (lines 194-240); temperature in tenths
Rp_Generate ==
    /\ rp.pc = "generate"
    /\ \E how \in { "rows", "unparseable", "raised" } :
        \E n \in RowCounts, msg \in ExcMessages :
          /\ how # "rows" => n = 0
          /\ how # "raised" => msg = "boom"
          /\ calls' = [ calls EXCEPT
                  !.generate = @ + 1,
                  !.temperatures = Append(@, IF rp.attempt = 0 THEN 7 ELSE 9),
                  !.responses = Append(@, CASE how # "rows" -> how
                                            [] n >= MinRows -> "enough"
                                            [] n = 0 -> "empty"
                                            [] OTHER -> "few") ]
          /\ CASE how = "rows" ->
                    IF n >= MinRows
                    THEN /\ rp' = [ rp EXCEPT !.pc = "frame", !.rows = n ]
                         /\ UNCHANGED << pc, price_est, fut, ret, futExc, response >>
                    ELSE AfterAttempt(n, IF n = 0 THEN "empty data" ELSE "too few rows")
               [] how = "unparseable" ->
                    IF rp.attempt = 1
                    THEN RpReturn(ReasonResult("failed to parse synthetic data"))
                    ELSE /\ rp' = [ rp EXCEPT !.attempt = @ + 1,
                                              !.last_error = "failed to parse synthetic data" ]
                         /\ UNCHANGED << pc, price_est, fut, ret, futExc, response >>
               [] how = "raised" ->
                    IF rp.attempt = 1
                    THEN RpReturn(ErrorResult(msg))
                    ELSE /\ rp' = [ rp EXCEPT !.attempt = @ + 1, !.last_error = msg ]
                         /\ UNCHANGED << pc, price_est, fut, ret, futExc, response >>
    /\ UNCHANGED << op, images, exc, vision, classification, request, mapped,
                    generated_description, statusOut >>

\* a successful estimate that keeps the error of a failed first attempt
PricingResult_keeps_error(predicted, mae, nrows, last_error) ==
    IF Len(predicted) = 0 THEN NoPredictionResult
    ELSE [ SuccessResult(predicted[1], mae, nrows) EXCEPT
             !._reason = IF last_error = "empty data" THEN Nil ELSE Some(last_error) ]

\* lines 266-283: the estimate from what cb.predict returned
PricingResult(predicted, mae, nrows, last_error) ==
    IF Len(predicted) = 0 THEN NoPredictionResult
    ELSE SuccessResult(predicted[1], mae, nrows)

\* FEATURE_COLUMNS
FEATURE_COLUMNS ==
    { "body_type", "color", "steering_wheel_position", "year", "engine_capacity",
      "transmission", "drive_type", "mileage", "damage_flag",
      "visual_condition_score", "inspection_reliability_score",
      "defects_cnt", "defects_severity_weak_cnt", "defects_severity_moderate_cnt",
      "defects_severity_strong_cnt" }

\* `"cnt" in col or "score" in col` on the feature columns
CountOrScore(col) ==
    col \in { "visual_condition_score", "inspection_reliability_score",
              "defects_cnt", "defects_severity_weak_cnt", "defects_severity_moderate_cnt",
              "defects_severity_strong_cnt" }

\* 0 if "cnt" in col or "score" in col else ""
Neutral(col) == IF CountOrScore(col) THEN 0 ELSE ""

\* row.get(col, 0 if "cnt" in col or "score" in col else ""): the value a
\* feature column absent from the generated frame is filled with
BackfillValue(row, col) == IF col \in DOMAIN row THEN row[col] ELSE Neutral(col)

\* the sets of feature columns a generated corpus may lack
AbsentColumnSets ==
    { { }, { "body_type" }, { "defects_cnt" }, { "color", "visual_condition_score" } }

\* lines 243-254: the frame of the generated rows, its price column, the
\* back-fill of the feature columns it lacks, the coercion of the prices
Rp_Frame ==
    /\ rp.pc = "frame"
    /\ \/ RpReturn(ReasonResult("no price column or too few rows"))
       \/ \E absent \in AbsentColumnSets :
            \/ RpReturn(ReasonResult("too few valid prices"))
            \/ /\ rp' = [ rp EXCEPT !.pc = "train", !.absent = absent,
                                     !.fill = [ col \in absent |-> BackfillValue(rp.row, col) ] ]
               /\ UNCHANGED << pc, price_est, fut, ret, futExc, response >>
    /\ UNCHANGED << op, images, exc, vision, classification, request, mapped, calls,
                    generated_description, statusOut >>

\* lines 255-283: the split, the fit, the prediction for the car.  cb.predict
\* on the one-row frame of the car returns one value.
Rp_Train ==
    /\ rp.pc = "train"
    /\ \/ /\ calls' = [ calls EXCEPT !.fit = @ + 1 ]
          /\ \E msg \in ExcMessages : RpRaise(msg)
       \/ /\ calls' = [ calls EXCEPT !.fit = @ + 1 ]
          /\ \E predicted \in Predictions, mae \in MAEs :
                RpReturn(PricingResult(<< predicted >>, mae, rp.rows, rp.last_error))
    /\ UNCHANGED << op, images, exc, vision, classification, request, mapped,
                    generated_description, statusOut >>

----------------------------------------------------------------------------
(* recalculate_price *)

\* the keyword arguments of the run_pricing call of lines 285-305
RecalcPricingArgs(req) ==
    LET ci == req.car_identity
    IN  [ brand |-> ci.brand, model |-> ci.model, body_type |-> ci.body_type,
          color |-> ci.color, steering_wheel_position |-> ci.steering_wheel_position,
          year |-> ci.year, engine_capacity |-> ci.engine_capacity,
          transmission |-> ci.transmission, drive_type |-> ci.drive_type,
          mileage |-> ci.mileage,
          damage_flag |-> IF req.technical_assumptions.accident_signs THEN "bityi"
                          ELSE IF ci.damage_flag = "" THEN "ne bityi" ELSE ci.damage_flag,
          visual_condition_score |-> req.visual_condition.overall_score,
          inspection_reliability_score |-> 7,
          defects |-> [ i \in 1..Len(req.visual_condition.defects) |->
                          [ isDict |-> TRUE,
                            severity |-> req.visual_condition.defects[i].severity,
                            type |-> req.visual_condition.defects[i].type ] ] ]

\* the request arrives and run_pricing is called
Recalc_Call ==
    /\ op = "none"
    /\ \E req \in Requests :
        /\ request' = req
        /\ rp' = [ IdleRp EXCEPT !.pc = "entry", !.args = RecalcPricingArgs(req) ]
    /\ op' = "recalc"
    /\ pc' = "r_pricing"
    /\ UNCHANGED << images, fut, ret, futExc, exc, vision, classification, mapped,
                    calls, price_est, generated_description, response, statusOut >>

\* the PriceEstimation of lines 306-315
RecalcPriceEstimation(raw) ==
    [ kind |-> "PriceEstimation",
      min_price |-> raw.min_price,
      max_price |-> raw.max_price,
      suggested_price |-> raw.suggested_price,
      mae |-> raw.mae,
      missing_fields |-> IF IsNil(raw.missing_fields) THEN << >> ELSE Val(raw.missing_fields),
      error_message |-> IF TruthyStr(ErrMsgOf(raw)) THEN ErrMsgOf(raw) ELSE Nil,
      generated_rows |-> raw.generated_rows ]

\* lines 306-315
Recalc_Build ==
    /\ pc = "r_build"
    /\ response' = RecalcPriceEstimation(price_est)
    /\ pc' = "done"
    /\ UNCHANGED << op, images, fut, ret, futExc, exc, vision, classification, request,
                    mapped, rp, calls, price_est, generated_description, statusOut >>

----------------------------------------------------------------------------
(* The requests served by the coordinator and the price estimator *)

Next ==
    \/ Analyze_Call
    \/ Phase1_SubmitVision
    \/ Phase1_SubmitClassification
    \/ Phase1_ResultVision
    \/ Phase1_ResultClassification
    \/ Phase1_Exit
    \/ Map
    \/ Phase2_SubmitPricing
    \/ Phase2_SubmitDescription
    \/ Phase2_ResultPricing
    \/ Phase2_ResultDescription
    \/ Phase2_Exit
    \/ Assemble
    \/ run_vision
    \/ run_classification
    \/ run_description
    \/ Rp_Entry
    \/ Rp_GetClient
    \/ Rp_Generate
    \/ Rp_Frame
    \/ Rp_Train
    \/ Recalc_Call
    \/ Recalc_Build

Spec == Init /\ [][Next]_vars

----------------------------------------------------------------------------
(* The same requests when a phase-2 task writes to an object it was given. *)
(* analyze_images hands run_description the dicts vision and               *)
(* classification themselves (line 226), and the closure _run_pricing      *)
(* reads vision["defects"] in its worker (line 220): `vision`, the dict    *)
(* run_description holds, the list run_pricing iterates and the            *)
(* vision_result of the response are one object.  ret keeps what the       *)
(* phase-1 task returned, as it was when it returned.                      *)

\* run_description clears the defect list of the vision dict it was given,
\* or sets its "_error" key; run_pricing, if it has not yet iterated the
\* list (line 155), finds it changed
run_description_writes ==
    /\ fut["description"] = "running"
    /\ vision = ret.vision
    /\ \E key \in { "defects", "_error" } :
        /\ vision' = IF key = "defects" THEN [ vision EXCEPT !.defects = << >> ]
                      ELSE [ vision EXCEPT !._error = "overwritten" ]
        /\ vision' # vision
    /\ rp' = IF rp.pc = "entry" THEN [ rp EXCEPT !.args.defects = vision'.defects ] ELSE rp
    /\ UNCHANGED << op, pc, images, fut, ret, futExc, exc, classification, request,
                    mapped, calls, price_est, generated_description, response, statusOut >>

NextSharing == Next \/ run_description_writes

SpecSharing == Init /\ [][NextSharing]_vars

----------------------------------------------------------------------------
(* _decide_status on its own, over every pair of phase-1 outputs *)

StatusVisions ==
    { [ NoVision EXCEPT !._error = e, !._parse_error = pe, !.raw_text_description = t ] :
        e \in { "", "timeout" }, pe \in { "", "bad json" },
        t \in { << >>, << "seryi sedan" >>, << "Analiz nevozmozhen" >>,
                << "seryi sedan", "ne soderzhit avtomobil" >>,
                << "ne sootvetstvuet zadache" >> } }

StatusClassifications ==
    { [ NoClassification EXCEPT !._error = e, !._parse_error = pe, !.status = st,
                                !.failure_reason = fr, !.brand = b, !.model = m ] :
        e \in { "", "timeout" }, pe \in { "", "bad json" },
        st \in { "", "ok", "failed" }, fr \in { "", "blurry" },
        b \in { "", " ", "Toyota" }, m \in { "", "Camry" } }

InitStatus ==
    /\ op = "status"
    /\ pc = "s_call"
    /\ images = 0
    /\ fut = [ t \in Tasks |-> "none" ]
    /\ ret = [ vision |-> NoVision, classification |-> NoClassification,
               pricing |-> EmptyEstimate, description |-> "" ]
    /\ futExc = [ t \in Tasks |-> "" ]
    /\ exc = Nil
    /\ vision \in StatusVisions
    /\ classification \in StatusClassifications
    /\ request = NoRequest
    /\ mapped = NoMapped
    /\ rp = IdleRp
    /\ calls = NoCalls
    /\ price_est = EmptyEstimate
    /\ generated_description = ""
    /\ response = NoResponse
    /\ statusOut = ""

\* status = _decide_status(vision, classification)
DecideStatus ==
    /\ pc = "s_call"
    /\ statusOut' = _decide_status(vision, classification)
    /\ pc' = "done"
    /\ UNCHANGED << op, images, fut, ret, futExc, exc, vision, classification, request,
                    mapped, rp, calls, price_est, generated_description, response >>

NextStatus == DecideStatus

SpecStatus == InitStatus /\ [][NextStatus]_vars

----------------------------------------------------------------------------
(* _check_missing on its own, called twice on one record *)

\* the row of a car whose required fields are all filled
CompleteRow ==
    RowOf(RecalcPricingArgs([ car_identity |-> CompleteIdentity,
                              visual_condition |-> DefaultVisualCondition,
                              technical_assumptions |-> DefaultTechnicalAssumptions ]))

\* the records given to the check: CompleteRow with some required fields
\* overwritten, the text ones by sfill and the numeric ones by nfill
CheckRows ==
    { [ f \in DOMAIN CompleteRow |->
          IF f \notin touched THEN CompleteRow[f]
          ELSE IF f \in NumericFields THEN nfill ELSE sfill ] :
        touched \in { t \in SUBSET RequiredSet : Cardinality(t) <= MaxTouched + 1 },
        sfill \in { "", " ", " bogus " },
        nfill \in { Nil, NotANumber } }

\* a check that fills what it finds missing with a placeholder
RowAfterCheck_fills_defaults(row) ==
    [ f \in DOMAIN row |->
        IF f \in RequiredSet /\ FieldMissing(row, f)
        THEN (IF f \in NumericFields THEN Some(0)
              ELSE IF f = "steering_wheel_position" THEN "left" ELSE "unknown")
        ELSE row[f] ]

\* the record after _check_missing ran on it: the check only reads it
\* (row.get, row["year"], row["engine_capacity"], row["mileage"])
RowAfterCheck(row) == row

InitCheck ==
    /\ op = "check"
    /\ pc = "c_call"
    /\ images = 0
    /\ fut = [ t \in Tasks |-> "none" ]
    /\ ret = [ vision |-> NoVision, classification |-> NoClassification,
               pricing |-> EmptyEstimate, description |-> "" ]
    /\ futExc = [ t \in Tasks |-> "" ]
    /\ exc = Nil
    /\ vision = NoVision
    /\ classification = NoClassification
    /\ \E row \in CheckRows :
        /\ request = [ row |-> row ]
        /\ rp = [ IdleRp EXCEPT !.row = row ]
    /\ mapped = NoMapped
    /\ calls = NoCalls
    /\ price_est = EmptyEstimate
    /\ generated_description = ""
    /\ response = NoResponse
    /\ statusOut = ""

\* missing = _check_missing(row)
CheckMissing ==
    /\ pc = "c_call"
    /\ response' = [ kind |-> "missing", missing |-> _check_missing(rp.row), again |-> Nil ]
    /\ rp' = [ rp EXCEPT !.row = RowAfterCheck(rp.row) ]
    /\ pc' = "c_again"
    /\ UNCHANGED << op, images, fut, ret, futExc, exc, vision, classification, request,
                    mapped, calls, price_est, generated_description, statusOut >>

\* _check_missing(row) once more, on the same record
CheckMissingAgain ==
    /\ pc = "c_again"
    /\ response' = [ response EXCEPT !.again = Some(_check_missing(rp.row)) ]
    /\ rp' = [ rp EXCEPT !.row = RowAfterCheck(rp.row) ]
    /\ pc' = "done"
    /\ UNCHANGED << op, images, fut, ret, futExc, exc, vision, classification, request,
                    mapped, calls, price_est, generated_description, statusOut >>

NextCheck == CheckMissing \/ CheckMissingAgain

SpecCheck == InitCheck /\ [][NextCheck]_vars

----------------------------------------------------------------------------
(* _confidence_warnings on its own, over its three arguments *)

\* what _confidence_warnings reads of classification
WarningClassifications ==
    { [ NoClassification EXCEPT !.classification_confidence = conf, !.brand = b, !.model = m ] :
        conf \in { [ category |-> cat, subcategory |-> sub ] :
                       cat \in { "", "low", "high" }, sub \in { "low", "high" } }
                  \cup { NotADict },
        b \in { "", "Toyota" }, m \in { "", "Camry" } }

\* what it reads of vision: the score absent, 0.5, 0.6, 0.9 or not a number
WarningVisions ==
    { [ NoVision EXCEPT !.inspection_reliability_score = insp ] :
        insp \in { Nil, Some(5), Some(6), Some(9), NotANumber } }

\* the price dicts: those run_pricing returns and that of the join handler
WarningPriceDicts ==
    { MissingResult(<< "year", "mileage" >>), ReasonResult("too few rows"),
      ErrorResult("boom"), ErrorResult(""), NoPredictionResult,
      SuccessResult(404, 8, 10), JoinErrorDict(SchedulingFault) }

InitWarnings ==
    /\ op = "warnings"
    /\ pc = "w_call"
    /\ images = 0
    /\ fut = [ t \in Tasks |-> "none" ]
    /\ ret = [ vision |-> NoVision, classification |-> NoClassification,
               pricing |-> EmptyEstimate, description |-> "" ]
    /\ futExc = [ t \in Tasks |-> "" ]
    /\ exc = Nil
    /\ vision \in WarningVisions \cup { NotADict }
    /\ classification \in WarningClassifications \cup { NotADict }
    /\ request = NoRequest
    /\ mapped = NoMapped
    /\ rp = IdleRp
    /\ calls = NoCalls
    /\ price_est \in WarningPriceDicts \cup { NotADict }
    /\ generated_description = ""
    /\ response = NoResponse
    /\ statusOut = ""

\* confidence_warnings = _confidence_warnings(classification, vision, price_est)
ConfidenceWarnings ==
    /\ pc = "w_call"
    /\ response' = [ kind |-> "warnings",
                     confidence_warnings |->
                         _confidence_warnings(classification, vision, price_est) ]
    /\ pc' = "done"
    /\ UNCHANGED << op, images, fut, ret, futExc, exc, vision, classification, request,
                    mapped, rp, calls, price_est, generated_description, statusOut >>

NextWarnings == ConfidenceWarnings

SpecWarnings == InitWarnings /\ [][NextWarnings]_vars

----------------------------------------------------------------------------
(* What a state shows of the price estimator's activations *)

\* the arguments run_pricing was called with in this request
PricingArgs == IF op = "recalc" THEN RecalcPricingArgs(request) ELSE AnalyzePricingArgs

\* run_pricing returned a dict to its caller
PricingReturned ==
    \/ op = "analyze" /\ fut["pricing"] = "returned"
    \/ op = "recalc" /\ (pc = "r_build" \/ (pc = "done" /\ response.kind = "PriceEstimation"))

\* that dict
PricingDict == IF op = "recalc" THEN price_est ELSE ret.pricing

\* analyze_images returned the response it assembles at lines 253-276
Assembled == op = "analyze" /\ pc = "done" /\ images > 0 /\ (IsNil(exc) \/ PhaseOf(exc) = 2)

\* recalculate_price returned its PriceEstimation
Recalculated == op = "recalc" /\ pc = "done" /\ response.kind = "PriceEstimation"

----------------------------------------------------------------------------
(* Claims *)

\* C1: in analyze_images no phase-2 task (run_pricing, run_description) is
\* submitted or started before both phase-1 tasks have completed and their
\* results have been read by the main thread
C1_Phase2AfterPhase1 ==
    (\E t \in Phase2 : fut[t] # "none")
        => /\ \A t \in Phase1 : fut[t] = "returned"
           /\ vision = ret.vision
           /\ classification = ret.classification
           /\ pc \notin { "a_submit_vision", "a_submit_classification",
                          "a_result_vision", "a_result_classification", "a_exit1" }

\* C1 witness: both phase-2 tasks run at once, after a phase 1 that returned two results
C1_Witness ==
    /\ fut["pricing"] = "running"
    /\ fut["description"] = "running"
    /\ vision \in VisionOutputs
    /\ classification \in ClassificationOutputs

\* C2: within a phase, when one task fails and its sibling completes, the
\* sibling's result is still used in the returned response (phase 1:
\* vision and classification; phase 2: pricing and description)
C2_SiblingResultUsed ==
    (op = "analyze" /\ pc = "done" /\ images > 0)
        => /\ (fut["pricing"] = "raised" /\ fut["description"] = "returned")
                => response.generated_description = ret.description
           /\ (fut["description"] = "raised" /\ fut["pricing"] = "returned")
                => response.price_estimation = AnalyzePriceEstimation(ret.pricing)
           /\ (fut["vision"] = "raised" /\ fut["classification"] = "returned")
                => response.car_identity.brand = safe_str(ret.classification.brand)
           /\ (fut["classification"] = "raised" /\ fut["vision"] = "returned")
                => response.vision_result = ret.vision

C4_Phase1RaiseIsTerminal ==
    (op = "analyze" /\ ~IsNil(exc) /\ PhaseOf(exc) = 1)
        => /\ pc \in { "a_exit1", "done" }
           /\ \A t \in Phase2 : fut[t] = "none"
           /\ rp = IdleRp
           /\ calls = NoCalls
           /\ pc = "done" => (response.kind = "AnalysisResponse" /\ response.status = "error")

\* C4 witness: the request ended after the submission of the second
\* phase-1 task raised while the first task ran to its end
C4_Witness ==
    /\ op = "analyze"
    /\ pc = "done"
    /\ ~IsNil(exc)
    /\ PhaseOf(exc) = 1
    /\ fut["vision"] = "returned"
    /\ fut["classification"] = "none"
    /\ response.status = "error"

StatusRules(v, c) ==
    << [ holds |-> \/ v._error # "" \/ v._parse_error # ""
                   \/ c._error # "" \/ c._parse_error # "",
         status |-> "error" ],
       [ holds |-> \/ \E p \in RejectionPhrases : Contains(v.raw_text_description, p)
                   \/ (c.status = "failed" /\ c.failure_reason # "")
                   \/ (c.brand = "" /\ c.model = ""),
         status |-> "needs_user_input" ],
       [ holds |-> TRUE, status |-> "ok" ] >>

\* first match wins
FirstMatch(rules) ==
    rules[CHOOSE i \in 1..Len(rules) :
            rules[i].holds /\ \A j \in 1..(i - 1) : ~rules[j].holds].status

\* C5: _decide_status is the first-match-wins function of the status rules:
\* error markers beat everything, then the needs_user_input conditions, then ok
C5_StatusPrecedence ==
    (op = "status" /\ pc = "done")
        => statusOut = FirstMatch(StatusRules(vision, classification))

\* C5 witness: perception carries _error, classification has a valid brand
\* and model, and the status is "error"
C5_Witness ==
    /\ op = "status"
    /\ pc = "done"
    /\ vision._error # ""
    /\ classification.brand = "Toyota"
    /\ classification.model = "Camry"
    /\ classification._error = ""
    /\ statusOut = "error"

\* C6: when the completeness check finds a required field missing or
\* invalid, run_pricing returns the list of those fields with all prices and
\* the MAE null, and no client is created, no generation request is sent and
\* no model is trained
C6_IncompleteNoRemoteCalls ==
    LET missing == _check_missing(RowOf(PricingArgs))
    IN  (PricingReturned /\ missing # << >>)
            => /\ PricingDict.missing_fields = Some(missing)
               /\ IsNil(PricingDict.suggested_price)
               /\ IsNil(PricingDict.min_price)
               /\ IsNil(PricingDict.max_price)
               /\ IsNil(PricingDict.mae)
               /\ calls.client = 0
               /\ calls.generate = 0
               /\ calls.fit = 0

\* C6 witness: recalculate_price returned for a request whose mileage is None
C6_Witness ==
    /\ Recalculated
    /\ IsNil(request.car_identity.mileage)
    /\ response.missing_fields = << "mileage" >>

\* a price dict has no estimate together with a failure reason
DictExclusive(d) ==
    ~IsNil(d.suggested_price)
        => ~TruthyList(d.missing_fields) /\ IsNil(d._error) /\ IsNil(d._reason)

\* a PriceEstimation has no estimate together with a failure reason
EstimationExclusive(e) ==
    ~IsNil(e.suggested_price) => e.missing_fields = << >> /\ IsNil(e.error_message)

\* C7: no PriceEstimate (the dict of run_pricing, the PriceEstimation of
\* analyze_images and of recalculate_price) has a non-null suggested_price
\* together with a non-empty missing_fields or a non-null error
C7_EstimateExcludesFailure ==
    /\ DictExclusive(ret.pricing)
    /\ DictExclusive(price_est)
    /\ Assembled => EstimationExclusive(response.price_estimation)
    /\ Recalculated => EstimationExclusive(response)

\* C7 witness: an estimate produced on the second attempt, after a first
\* attempt that failed
C7_Witness ==
    /\ Recalculated
    /\ ~IsNil(response.suggested_price)
    /\ calls.generate = 2
    /\ calls.fit = 1

\* C8: every PriceEstimate with a null suggested_price has a non-empty
\* missing_fields or a non-null error, also when a remote call or the
\* phase-2 join failed with an exception whose message is empty
C8_NullPriceHasCause ==
    /\ PricingReturned
         => (IsNil(PricingDict.suggested_price)
               => \/ TruthyList(PricingDict.missing_fields)
                  \/ ~IsNil(PricingDict._error)
                  \/ ~IsNil(PricingDict._reason))
    /\ Assembled
         => (IsNil(response.price_estimation.suggested_price)
               => \/ response.price_estimation.missing_fields # << >>
                  \/ ~IsNil(response.price_estimation.error_message))
    /\ Recalculated
         => (IsNil(response.suggested_price)
               => \/ response.missing_fields # << >>
                  \/ ~IsNil(response.error_message))

\* C9: in every successful estimate of run_pricing, min_price is
\* max(0, suggested_price - mae) and max_price is suggested_price + mae, for
\* the suggested_price and mae returned in the same estimate
C9_RangeFromReturnedMae ==
    (PricingReturned /\ ~IsNil(PricingDict.suggested_price))
        => /\ Val(PricingDict.min_price)
                = Max(0, Val(PricingDict.suggested_price) - Val(PricingDict.mae))
           /\ Val(PricingDict.max_price)
                = Val(PricingDict.suggested_price) + Val(PricingDict.mae)

\* C10: no price reported by run_pricing is negative: each of
\* suggested_price, min_price and max_price that is non-null is >= 0
C10_NoNegativePrice ==
    PricingReturned
        => \A k \in { "suggested_price", "min_price", "max_price" } :
              ~IsNil(PricingDict[k]) => Val(PricingDict[k]) >= 0

\* C11: run_pricing issues at most 2 generation requests per pricing
\* request, the first at temperature 0.7 and the second at 0.9; a request is
\* issued only by the generation loop, and a second one only after a first
\* that yielded fewer than 10 rows or failed; after a first response of at
\* least 10 rows there is exactly one
C11_AtMostTwoGenerations ==
    /\ [](/\ calls.generate <= 2
          /\ calls.generate = Len(calls.responses)
          /\ calls.temperatures = SubSeq(<< 7, 9 >>, 1, calls.generate)
          /\ (calls.generate >= 1 /\ calls.responses[1] = "enough") => calls.generate = 1)
    /\ [][calls'.generate # calls.generate
            => /\ calls'.generate = calls.generate + 1
               /\ rp.pc = "generate"
               /\ calls.generate = 1
                     => calls.responses[1] \in { "empty", "few", "unparseable", "raised" }]_vars

\* C11 witness: a second request at 0.9 after a first of fewer than 10 rows,
\* and the second gave enough rows
C11_Witness ==
    /\ calls.temperatures = << 7, 9 >>
    /\ calls.responses = << "few", "enough" >>
    /\ rp.pc = "frame"

\* run_pricing has ended after two generation requests that both failed
BothAttemptsFailed ==
    /\ rp.pc = "idle"
    /\ Len(calls.responses) = 2
    /\ calls.responses[2] # "enough"

\* C12: when both generation attempts fail (empty, unparseable, fewer than
\* 10 rows, or a raised remote error), run_pricing returns, without raising
\* and without training, a value with suggested_price null and a non-empty
\* reason string; when both attempts return fewer than 10 rows the reason is
\* "too few rows"
C12_GenerationFailureValue ==
    BothAttemptsFailed
        => /\ PricingReturned
           /\ calls.fit = 0
           /\ IsNil(PricingDict.suggested_price)
           /\ TruthyStr(PricingDict._error) \/ TruthyStr(PricingDict._reason)
           /\ calls.responses = << "few", "few" >>
                 => PricingDict._reason = Some("too few rows")

\* C13: run_pricing and recalculate_price never raise: whatever the record
\* and the remote text service do, run_pricing hands a dict to its caller
\* and recalculate_price returns a PriceEstimation
C13_PricingNeverRaises ==
    /\ fut["pricing"] # "raised"
    /\ (op = "recalc" /\ pc = "done") => response.kind = "PriceEstimation"

\* a phase-1 output carries a soft error marker
HasMarker(o) == o._error # "" \/ o._parse_error # ""

\* C14: for a non-empty image list and phase-1 outputs of which at least
\* one carries a soft error marker, analyze_images returns an
\* AnalysisResponse with status "error" and at least one confidence
\* warning, and no exception leaves it
C14_SoftErrorGivesErrorResponse ==
    (/\ op = "analyze" /\ pc = "done" /\ images > 0
     /\ \A t \in Phase1 : fut[t] = "returned"
     /\ HasMarker(ret.vision) \/ HasMarker(ret.classification))
        => /\ response.kind = "AnalysisResponse"
           /\ response.status = "error"
           /\ response.confidence_warnings # << >>

\* C14 witness: only the classification output carries a marker
\* (_parse_error), and the request was answered
C14_Witness ==
    /\ Assembled
    /\ ~HasMarker(ret.vision)
    /\ ret.classification._parse_error # ""
    /\ response.status = "error"
    /\ Len(response.confidence_warnings) >= 2

\* the warning is in the returned list, once
Emitted(w) ==
    Cardinality({ i \in 1..Len(response.confidence_warnings) :
                    response.confidence_warnings[i] = w }) = 1
Absent(w) == \A i \in 1..Len(response.confidence_warnings) : response.confidence_warnings[i] # w

\* the conditions of the four warnings, each on the argument it reads
LowConfidenceCond(c) ==
    /\ IsDict(c.classification_confidence)
    /\ c.classification_confidence.category = "low"
          \/ c.classification_confidence.subcategory = "low"
UnknownCarCond(c) == c.brand = "" \/ c.model = ""
LowReliabilityCond(v) ==
    /\ v.inspection_reliability_score \notin { Nil, NotANumber }
    /\ Val(v.inspection_reliability_score) < 6
UnresolvedPriceCond(pe) ==
    /\ IsNil(pe.suggested_price)
    /\ \/ (~IsNil(pe.missing_fields) /\ Len(Val(pe.missing_fields)) > 0)
       \/ (~IsNil(pe._error) /\ Val(pe._error) # "")
       \/ (~IsNil(pe._reason) /\ Val(pe._reason) # "")

\* C15: on three dicts, _confidence_warnings emits each of the four
\* warnings if and only if its own condition holds, whatever the other three
\* conditions are: low category or subcategory confidence; brand or model
\* empty; a numeric inspection_reliability_score below 0.6; a null
\* suggested_price with non-empty missing_fields or an error or reason
C15_WarningsIndependent ==
    (op = "warnings" /\ pc = "done"
     /\ IsDict(classification) /\ IsDict(vision) /\ IsDict(price_est))
        => /\ IF LowConfidenceCond(classification)
              THEN Emitted(LowClassificationConfidence) ELSE Absent(LowClassificationConfidence)
           /\ IF UnknownCarCond(classification)
              THEN Emitted(BrandOrModelUnknown) ELSE Absent(BrandOrModelUnknown)
           /\ IF LowReliabilityCond(vision)
              THEN Emitted(LimitedVisibility) ELSE Absent(LimitedVisibility)
           /\ IF UnresolvedPriceCond(price_est)
              THEN Emitted(NotEnoughData) ELSE Absent(NotEnoughData)

\* C15 witness: the first and the fourth condition hold, the second and the
\* third do not, and exactly those two warnings were returned
C15_Witness ==
    /\ op = "warnings"
    /\ pc = "done"
    /\ IsDict(classification) /\ IsDict(vision) /\ IsDict(price_est)
    /\ LowConfidenceCond(classification) /\ ~UnknownCarCond(classification)
    /\ ~LowReliabilityCond(vision) /\ UnresolvedPriceCond(price_est)
    /\ response.confidence_warnings = << LowClassificationConfidence, NotEnoughData >>

\* C16: _confidence_warnings never raises, and a fault while computing one
\* warning omits only that warning: every warning whose argument is a dict
\* and whose condition holds is in the returned list, whether it is computed
\* before or after the one that faulted
C16_FaultOmitsOnlyItsWarning ==
    (op = "warnings" /\ pc = "done")
        => /\ response.kind = "warnings"
           /\ (IsDict(classification) /\ LowConfidenceCond(classification))
                 => Emitted(LowClassificationConfidence)
           /\ (IsDict(classification) /\ UnknownCarCond(classification))
                 => Emitted(BrandOrModelUnknown)
           /\ (IsDict(vision) /\ LowReliabilityCond(vision))
                 => Emitted(LimitedVisibility)
           /\ (IsDict(price_est) /\ UnresolvedPriceCond(price_est))
                 => Emitted(NotEnoughData)

\* the severity counts of a defect list
SeveritySum(defects) ==
    CountSeverity(defects, "slabaya") + CountSeverity(defects, "umerennaya")
        + CountSeverity(defects, "silnaya")

\* C17: every feature record built for a request has defects_cnt equal to
\* the sum of the weak, moderate and strong counts of the request's defect
\* list, also when a defect's severity is missing or unrecognised: the row
\* of run_pricing, and df_for_pricing of analyze_images
C17_DefectCountIsSum ==
    /\ (rp.pc # "idle" /\ ~HasNonDict(rp.args.defects))
          => LET row == RowOf(rp.args)
             IN  /\ row.defects_cnt = row.defects_severity_weak_cnt
                        + row.defects_severity_moderate_cnt + row.defects_severity_strong_cnt
                 /\ row.defects_cnt = SeveritySum(rp.args.defects)
    /\ (op = "analyze" /\ pc \in { "a_submit_pricing", "a_submit_description",
                                   "a_result_pricing", "a_result_description",
                                   "a_exit2", "a_assemble" })
          => mapped.df_for_pricing.defects_cnt = SeveritySum(vision.defects)

\* C18: the two tasks of a phase share no mutable state: a write by one
\* task to an object it was given is not observable by its sibling, so the
\* defect list the pricing task is about to read is the one phase 1 produced
C18_SiblingsShareNothing ==
    (op = "analyze" /\ fut["pricing"] = "running" /\ rp.pc = "entry")
        => rp.args.defects = ret.vision.defects

\* C19: no backward data flow: whatever a phase-2 task does to its inputs,
\* the status, confidence_warnings, car_identity, visual_condition and
\* vision_result of the response are those of the phase-1 results
C19_NoBackwardFlow ==
    Assembled
        => /\ response.status = _decide_status(ret.vision, ret.classification)
           /\ response.confidence_warnings
                 = _confidence_warnings(ret.classification, ret.vision, price_est)
           /\ response.car_identity = CarIdentityOf(ret.vision, ret.classification)
           /\ response.visual_condition = VisualConditionOf(ret.vision)
           /\ response.vision_result = ret.vision

\* C20: before the model is fit, every declared feature column absent
\* from the generated corpus is filled with the neutral value: 0 for a
\* count or score column, the empty string for the others
C20_BackfillIsNeutral ==
    rp.pc = "train"
        => \A col \in rp.absent :
              /\ col \in FEATURE_COLUMNS
              /\ rp.fill[col] = Neutral(col)

\* a required field is empty or, if numeric, does not parse
EmptyOrUnparsable(row, f) ==
    IF f \in NumericFields THEN row[f] = Nil \/ row[f] = NotANumber
    ELSE row[f] \in { "", " " }

\* the fields of `fields` that are empty or unparsable in row, in order
RECURSIVE Violating(_, _)
Violating(row, fields) ==
    IF fields = << >> THEN << >>
    ELSE (IF EmptyOrUnparsable(row, Head(fields)) THEN << Head(fields) >> ELSE << >>)
         \o Violating(row, Tail(fields))

\* C21: the completeness check reports a required field if and only if it
\* is empty or, for year, engine_capacity and mileage, does not parse: the
\* list is exactly those fields, each once, in the required-field order, and
\* it is empty when all eleven are non-empty and the numeric ones parse
C21_MissingIffEmptyOrUnparsable ==
    (op = "check" /\ pc \in { "c_again", "done" })
        => response.missing = Violating(request.row, REQUIRED_FOR_PRICING)

SubmittedEmpty(ci) ==
    { f \in RequiredSet :
        IF f \in NumericFields THEN IsNil(ci[f]) ELSE ci[f] = "" }

\* the members of a list
Members(list) == { list[i] : i \in DOMAIN list }

\* C22: recalculate_price substitutes no default for a required pricing
\* field: every required field that is empty or null in the submitted
\* car_identity is in the returned missing_fields, and then no estimate is
\* produced
C22_NoDefaultSubstituted ==
    Recalculated
        => /\ SubmittedEmpty(request.car_identity) \subseteq Members(response.missing_fields)
           /\ SubmittedEmpty(request.car_identity) # { } => IsNil(response.suggested_price)

\* the positions of analyze_images after its first `with` block
AfterPhase1 ==
    { "a_map", "a_submit_pricing", "a_submit_description", "a_result_pricing",
      "a_result_description", "a_exit2", "a_assemble", "done" }

\* the positions of analyze_images after its second `with` block
AfterPhase2 == { "a_assemble", "done" }

\* C23: analyze_images cancels nothing and times nothing out: once it has
\* left a phase, or returned, no task submitted in that phase is still
\* running, whether its sibling finished first, raised, or was never started
C23_SubmittedTasksAwaited ==
    op = "analyze"
        => /\ pc \in AfterPhase1 => \A t \in Phase1 : fut[t] # "running"
           /\ (pc \in AfterPhase2 /\ images > 0 /\ (IsNil(exc) \/ PhaseOf(exc) = 2))
                  => \A t \in Phase2 : fut[t] # "running"

\* C23 witness: the pricing task raised at the join, and analyze_images left
\* the second phase only after the description task had run to its end
C23_Witness ==
    /\ op = "analyze"
    /\ pc = "a_assemble"
    /\ ~IsNil(exc)
    /\ fut["pricing"] = "raised"
    /\ fut["description"] = "returned"
    /\ ret.description # ""
    /\ generated_description = ""

\* C25: in every run of analyze_images that reaches phase 2 and invokes the
\* price estimator, it is invoked with year, engine_capacity and mileage
\* null and drive_type empty and stops at the completeness check: no
\* generation request is issued, suggested_price is null, and missing_fields
\* contains year, engine_capacity, drive_type and mileage
C25_AnalyzeNeverPrices ==
    (Assembled /\ fut["pricing"] # "none")
        => /\ IsNil(AnalyzePricingArgs.year)
           /\ IsNil(AnalyzePricingArgs.engine_capacity)
           /\ IsNil(AnalyzePricingArgs.mileage)
           /\ AnalyzePricingArgs.drive_type = ""
           /\ calls.generate = 0
           /\ IsNil(response.price_estimation.suggested_price)
           /\ { "year", "engine_capacity", "drive_type", "mileage" }
                  \subseteq Members(response.price_estimation.missing_fields)

\* C26: within one analyze_images request, once both phase-2 consumers have
\* been given their inputs, the defects_cnt given to description generation
\* equals the defects_cnt run_pricing computes from the raw defect list,
\* whatever that list holds
C26_ConsumersSeeSameDefectCount ==
    (op = "analyze" /\ fut["pricing"] # "none" /\ fut["description"] # "none")
        => /\ ~HasNonDict(AnalyzePricingArgs.defects)
           /\ RowOf(AnalyzePricingArgs).defects_cnt = mapped.df_for_pricing.defects_cnt

====
